---- MODULE Spec2Model ----
(***************************************************************************)
(* Model of the library store of evanjo/database.py (books, members,       *)
(* loans, settings, users, audit_log) and of the operations on it.         *)
(*                                                                         *)
(* Conventions                                                             *)
(*  - a table is a function from the row id (or key) to the row record;    *)
(*    users and loans lose no row, so they are sequences indexed by id     *)
(*  - self_role is LibraryApp.role, read once when the user logs in;      *)
(*    conns is the connections of callers that run borrow_book or          *)
(*    return_book one statement at a time; outbox is the mail handed to    *)
(*    the SMTP server                                                      *)
(*  - loan_tree and audit_tree are the rows of the active-loans table and  *)
(*    of the audit table of the window                                     *)
(*    AUTOINCREMENT ids come from a per-table counter and are never reused *)
(*  - a datetime is a number of clock slots, SlotsPerDay slots to the day; *)
(*    its ISO-8601 text is the pair <<calendar day, slot within the day>>  *)
(*  - SQL NULL in a TEXT column is the empty tuple << >>                   *)
(*  - a Python Optional is << >> for None and <<v>> for a value v          *)
(*  - a TEXT value that the code parses is a tuple of one-character        *)
(*    strings; amounts of money are integers, in hundredths                *)
(*  - an operation is one step: its commit and its log_audit call are part *)
(*    of it, and the clock does not move inside it                         *)
(*  - result is the value the last operation returned                      *)
(***************************************************************************)
EXTENDS Integers, Sequences, FiniteSets, TLC

VARIABLES books, bookSeq, members, memberSeq, loans, settings, users,
          audit_log, now, username, result, self_role, conns, outbox,
          loan_tree, audit_tree

\* the name of the last operation comes first: the values two operations
\* return are of different kinds, and only results of one operation are
\* compared
vars == <<result.op, books, bookSeq, members, memberSeq, loans, settings,
          users, audit_log, now, username, result, self_role, conns, outbox,
          loan_tree, audit_tree>>

\* ---------------------------------------------------------------- bounds
MaxBooks == 2
MaxMembers == 1
MaxAudit == 6
MaxTime == 2
SlotsPerDay == 2

\* the last calendar day of the fee specification
FeeMaxDay == 10
ShortAudit == 5
QueryRows == 4

\* ---------------------------------------------------------------- inputs
NULL == << >>
None == << >>

Titles == {"t1"}
EditedTitles == {"t2"}
Texts == {""}
Names == {"n1"}
BookIds == 1..(MaxBooks + 1)
MemberIds == 1..MaxMembers
DaysDue == {0, 1}

NewRate == <<"0", ".", "7", "5">>

Usernames == {"admin", "bob"}
Passwords == {"admin", "pw"}
Roles == {"admin", "staff"}
\* bcrypt.gensalt() draws the salt at random
Salts == {1, 2}

\* the <<key, value>> pairs written to the settings
SettingInputs == { <<"late_fee_per_day", NewRate>>,
                   <<"late_fee_per_day", <<"a", "b", "c">> >>,
                   <<"smtp_host", <<"h">> >> }

\* ------------------------------------------------------- dates and times
\* datetime.isoformat(): the text carries the calendar date and the time
isoformat(t) == <<t \div SlotsPerDay, t % SlotsPerDay>>

\* datetime.fromisoformat()
fromisoformat(s) == s[1] * SlotsPerDay + s[2]

\* datetime.date()
date(t) == t \div SlotsPerDay

\* timedelta(days=d)
timedelta(d) == d * SlotsPerDay

\* --------------------------------------------------------- float parsing
DigitChars == <<"0", "1", "2", "3", "4", "5", "6", "7", "8", "9">>

IsDigit(c) == \E i \in 1..10 : DigitChars[i] = c

DigitValue(c) == (CHOOSE i \in 1..10 : DigitChars[i] = c) - 1

RECURSIVE DigitsValue(_)
DigitsValue(s) ==
    IF s = << >> THEN 0
    ELSE 10 * DigitsValue(SubSeq(s, 1, Len(s) - 1)) + DigitValue(s[Len(s)])

\* float(text) for decimal texts [-]digits[.digits] with at most two
\* fraction digits, in hundredths: <<v>>, or << >> when float() raises
float(s) ==
    LET neg == Len(s) > 0 /\ s[1] = "-"
        body == IF neg THEN Tail(s) ELSE s
        dots == {i \in 1..Len(body) : body[i] = "."}
        dot == IF dots = {} THEN Len(body) + 1 ELSE CHOOSE i \in dots : TRUE
        ip == SubSeq(body, 1, dot - 1)
        fp == SubSeq(body, dot + 1, Len(body))
        ok == /\ Cardinality(dots) <= 1
              /\ Len(ip) + Len(fp) >= 1
              /\ Len(fp) <= 2
              /\ \A i \in 1..Len(ip) : IsDigit(ip[i])
              /\ \A i \in 1..Len(fp) : IsDigit(fp[i])
        frac == IF Len(fp) = 1 THEN 10 * DigitsValue(fp) ELSE DigitsValue(fp)
        mag == 100 * DigitsValue(ip) + frac
    IN IF ok THEN << IF neg THEN -mag ELSE mag >> ELSE << >>

\* ------------------------------------------------------------- passwords
\* bcrypt.hashpw(password, salt): one-way, the salt is kept in the hash
hashpw(pw, salt) == <<salt, pw>>

\* variant: every password checks
checkpw_Any(pw, hashed) == TRUE

\* bcrypt.checkpw(password, hashed): hash again with the salt of the hash
checkpw(pw, hashed) == hashpw(pw, hashed[1]) = hashed

\* ---------------------------------------------------------------- audit
AuditRow(actor, action, details) ==
    [actor |-> actor, action |-> action, details |-> details,
     created_at |-> isoformat(now)]

\* variant: the newest row comes first
log_audit_Prepend(log, actor, action, details) ==
    <<AuditRow(actor, action, details)>> \o log

\* INSERT INTO audit_log (actor, action, details, created_at)
log_audit(log, actor, action, details) ==
    Append(log, AuditRow(actor, action, details))

\* SQLite compares the TEXT of two isoformat() times: a <= b
TextLeq(a, b) == a[1] < b[1] \/ (a[1] = b[1] /\ a[2] <= b[2])

\* ORDER BY key DESC over the row ids S: every order of the rows in which
\* no key grows; SQL leaves the order of rows with equal keys open
RECURSIVE OrderedDesc(_, _)
OrderedDesc(S, key) ==
    IF S = {} THEN { << >> }
    ELSE UNION { { <<x>> \o rest : rest \in OrderedDesc(S \ {x}, key) } :
                 x \in {y \in S : \A z \in S : TextLeq(key[z], key[y])} }

\* LIMIT n: a negative n is no limit
Limit(rows, n) ==
    IF n < 0 \/ n >= Len(rows) THEN rows ELSE SubSeq(rows, 1, n)

\* a row of audit_log as the dict that SELECT * returns
AuditDict(i) ==
    [id |-> i, actor |-> audit_log[i].actor, action |-> audit_log[i].action,
     details |-> audit_log[i].details,
     created_at |-> audit_log[i].created_at]

\* variant: created_at > ?
SinceFilter_Strict(row, since) ==
    ~TextLeq(row.created_at, isoformat(since[1]))

\* WHERE created_at >= ? with since.isoformat()
SinceFilter(row, since) == TextLeq(isoformat(since[1]), row.created_at)

\* the row lists query_audit(limit, since) can return
query_audit(limit, since) ==
    LET ids == IF since # None
               THEN {i \in 1..Len(audit_log) :
                        SinceFilter(audit_log[i], since)}
               ELSE 1..Len(audit_log)
        key == [i \in ids |-> audit_log[i].created_at]
    IN { Limit([k \in 1..Len(o) |-> AuditDict(o[k])], limit) :
            o \in OrderedDesc(ids, key) }

\* actor or "unknown"
ActorOrUnknown(actor) == IF actor = None THEN "unknown" ELSE actor[1]

\* --------------------------------------------------------------- settings
get_setting(key) ==
    IF key \in DOMAIN settings THEN <<settings[key]>> ELSE None

\* ------------------------------------------------------------------ init
\* the processes that call the store at the same time
Callers == {"p1", "p2"}

\* a caller that is in no call: no connection, no statement, no result
Closed == [pc |-> "idle", call |-> None, row |-> None, tx |-> None,
           ret |-> None]

\* nothing but the store and the clock moves: the session, the callers and
\* the mail are as they were
Quiet == UNCHANGED <<self_role, conns, outbox, loan_tree, audit_tree>>

DefaultSettings ==
    [k \in {"late_fee_per_day", "smtp_host", "smtp_port", "smtp_user",
            "smtp_password"} |->
        CASE k = "late_fee_per_day" -> <<"0", ".", "5", "0">>
          [] k = "smtp_port" -> <<"5", "8", "7">>
          [] OTHER -> << >>]

\* the value an operation returned: None, or <<dict>>
Returned(op, ret) == [op |-> op, ret |-> ret]

Failure(msg) == <<[success |-> FALSE, message |-> msg]>>

Init ==
    /\ books = << >>
    /\ bookSeq = 0
    /\ members = << >>
    /\ memberSeq = 0
    /\ loans = << >>
    /\ settings = DefaultSettings
    /\ users = << [username |-> "admin",
                    password_hash |-> hashpw("admin", 1), role |-> "admin"] >>
    /\ now = 0
    /\ username = <<"admin">>
    /\ self_role = <<"admin">>
    /\ conns = [c \in Callers |-> Closed]
    /\ outbox = << >>
    /\ loan_tree = << >>
    /\ audit_tree = << >>
    /\ audit_log = << [actor |-> "admin", action |-> "create_user",
                       details |-> <<"created user ", "admin", "admin">>,
                       created_at |-> isoformat(0)],
                      [actor |-> "system", action |-> "create_default_admin",
                       details |-> <<"created default admin user 'admin'">>,
                       created_at |-> isoformat(0)] >>
    /\ result = Returned("init_db", None)

\* ---------------------------------------------------------------- clock
\* time passes between two operations
Tick ==
    /\ now < MaxTime
    /\ now' = now + 1
    /\ UNCHANGED <<books, bookSeq, members, memberSeq, loans, settings,
                   users, audit_log, username, result>>

\* ------------------------------------------------------ books and members
InsertRow(table, id, row) ==
    [i \in DOMAIN table \cup {id} |-> IF i = id THEN row ELSE table[i]]

DeleteRow(table, id) == [i \in DOMAIN table \ {id} |-> table[i]]

add_book(title, author, category, isbn, actor) ==
    /\ bookSeq < MaxBooks
    /\ Len(audit_log) < MaxAudit
    /\ books' = InsertRow(books, bookSeq + 1,
                          [title |-> title, author |-> author,
                           category |-> category, isbn |-> isbn,
                           available |-> 1])
    /\ bookSeq' = bookSeq + 1
    /\ audit_log' = log_audit(audit_log, ActorOrUnknown(actor), "add_book",
                              <<title>>)
    /\ result' = Returned("add_book", None)
    /\ UNCHANGED <<members, memberSeq, loans, settings, users, now, username>>

update_book(book_id, title, author, category, isbn, available, actor) ==
    /\ Len(audit_log) < MaxAudit
    /\ books' = [i \in DOMAIN books |->
                   IF i = book_id
                   THEN [title |-> title, author |-> author,
                         category |-> category, isbn |-> isbn,
                         available |-> IF available THEN 1 ELSE 0]
                   ELSE books[i]]
    /\ audit_log' = log_audit(audit_log, ActorOrUnknown(actor), "update_book",
                              <<book_id, " -> ", title>>)
    /\ result' = Returned("update_book", None)
    /\ UNCHANGED <<bookSeq, members, memberSeq, loans, settings, users, now, username>>

\* the Manage frame's "Update Selected": the selected book is one that was
\* loaded for editing, and the call passes available = True
update_book_action(bid, title, author, category, isbn) ==
    /\ bid \in DOMAIN books
    /\ update_book(bid, title, author, category, isbn, TRUE, username)

\* variant: the returned loans count too
OpenLoansOf_All(book_id) == {l \in DOMAIN loans : loans[l].book_id = book_id}

\* SELECT COUNT(*) FROM loans WHERE book_id=? AND date_returned IS NULL
OpenLoansOf(book_id) ==
    {l \in DOMAIN loans :
        loans[l].book_id = book_id /\ loans[l].date_returned = NULL}

delete_book(book_id, actor) ==
    IF Cardinality(OpenLoansOf(book_id)) > 0
    THEN /\ result' = Returned("delete_book",
               Failure("Cannot delete: book has active (not returned) loans."))
         /\ UNCHANGED <<books, bookSeq, members, memberSeq, loans, settings,
                        users, audit_log, now, username>>
    ELSE /\ Len(audit_log) < MaxAudit
         /\ books' = DeleteRow(books, book_id)
         /\ audit_log' = log_audit(audit_log, ActorOrUnknown(actor),
                "delete_book",
                IF book_id \in DOMAIN books THEN <<books[book_id].title>>
                ELSE <<"id:", book_id>>)
         /\ result' = Returned("delete_book",
               <<[success |-> TRUE, message |-> "Book deleted."]>>)
         /\ UNCHANGED <<bookSeq, members, memberSeq, loans, settings, users,
                        now, username>>

add_member(name, email, actor) ==
    /\ memberSeq < MaxMembers
    /\ Len(audit_log) < MaxAudit
    /\ members' = InsertRow(members, memberSeq + 1,
                            [name |-> name, email |-> email])
    /\ memberSeq' = memberSeq + 1
    /\ audit_log' = log_audit(audit_log, ActorOrUnknown(actor), "add_member",
                              <<name>>)
    /\ result' = Returned("add_member", None)
    /\ UNCHANGED <<books, bookSeq, loans, settings, users, now, username>>

\* ----------------------------------------------------------------- loans
\* variant: the availability test is left out
IsAvailable_Always(b) == TRUE

\* b["available"] == 0 is the test for a book that is out
IsAvailable(b) == ~(b.available = 0)

\* variant: the availability flag is not written
SetAvailable_Skipped(table, book_id, v) == table

\* variant: the UPDATE has no WHERE clause and writes every row
SetAvailable_AllRows(table, book_id, v) == [i \in DOMAIN table |-> [table[i] EXCEPT !.available = v]]

\* UPDATE books SET available=? WHERE id=?
SetAvailable(table, book_id, v) ==
    [i \in DOMAIN table |->
        IF i = book_id THEN [table[i] EXCEPT !.available = v] ELSE table[i]]

\* the row INSERT INTO loans (book_id, member_id, date_borrowed, date_due)
\* creates: date_returned is NULL and late_fee takes its DEFAULT 0
NewLoan(book_id, member_id, borrowed, due) ==
    [book_id |-> book_id, member_id |-> member_id,
     date_borrowed |-> isoformat(borrowed), date_due |-> isoformat(due),
     date_returned |-> NULL, late_fee |-> 0]

\* the due time of a loan made at time t: t + timedelta(days=days_due)
DueTime(t, days_due) == t + timedelta(days_due)

borrow_book(book_id, member_id, days_due, actor) ==
    IF book_id \notin DOMAIN books
    THEN /\ result' = Returned("borrow_book", Failure("Book not found."))
         /\ UNCHANGED <<books, bookSeq, members, memberSeq, loans, settings,
                        users, audit_log, now, username>>
    ELSE IF ~IsAvailable(books[book_id])
    THEN /\ result' = Returned("borrow_book",
                               Failure("Book currently not available."))
         /\ UNCHANGED <<books, bookSeq, members, memberSeq, loans, settings,
                        users, audit_log, now, username>>
    ELSE LET due == DueTime(now, days_due) IN
         /\ Len(audit_log) < MaxAudit
         /\ loans' = Append(loans, NewLoan(book_id, member_id, now, due))
         /\ books' = SetAvailable(books, book_id, 0)
         /\ audit_log' = log_audit(audit_log, ActorOrUnknown(actor),
                "borrow_book",
                <<"book:", book_id, " member:", member_id, " due:", date(due)>>)
         /\ result' = Returned("borrow_book",
                <<[success |-> TRUE,
                   message |-> <<"Borrowed successfully; due on ",
                                 date(due)>>]>>)
         /\ UNCHANGED <<bookSeq, members, memberSeq, settings, users, now, username>>

\* variant: a value that float() does not take counts as the rate 0
RateOf_Zero(late_fee_setting) ==
    IF late_fee_setting = None THEN 0
    ELSE IF float(late_fee_setting[1]) = << >> THEN 0
    ELSE float(late_fee_setting[1])[1]

\* float(late_fee_setting), 0.50 when that raises
RateOf(late_fee_setting) ==
    IF late_fee_setting = None THEN 50
    ELSE IF float(late_fee_setting[1]) = << >> THEN 50
    ELSE float(late_fee_setting[1])[1]

\* variant: the stored rate is not read
late_fee_per_day_Unread == RateOf(None)

late_fee_per_day == RateOf(get_setting("late_fee_per_day"))

\* variant: whole days of elapsed time instead of calendar days
LateDays_Elapsed(date_returned, date_due) ==
    (date_returned - date_due) \div SlotsPerDay

\* the days between the calendar dates of the return and of the due time
LateDays(date_returned, date_due) == date(date_returned) - date(date_due)

\* variant: the fee of an early return is not held at 0
LateFee_Unclamped(loan, date_returned, rate) ==
    LateDays(date_returned, fromisoformat(loan.date_due)) * rate

\* the fee of a loan returned at time date_returned
LateFee(loan, date_returned, rate) ==
    LET late_days == LateDays(date_returned, fromisoformat(loan.date_due))
    IN IF late_days > 0 THEN late_days * rate ELSE 0

\* variant: the already-returned test is left out
IsReturned_Never(loan) == FALSE

\* if loan["date_returned"]: a non-empty text is true
IsReturned(loan) == loan.date_returned # << >>

\* variant: the fee is not written to the loan row
CloseLoan_NoFee(table, loan_id, returned, late_fee) ==
    [i \in DOMAIN table |->
        IF i = loan_id
        THEN [table[i] EXCEPT !.date_returned = isoformat(returned)]
        ELSE table[i]]

\* UPDATE loans SET date_returned=?, late_fee=? WHERE id=?
CloseLoan(table, loan_id, returned, late_fee) ==
    [i \in DOMAIN table |->
        IF i = loan_id
        THEN [table[i] EXCEPT !.date_returned = isoformat(returned),
                              !.late_fee = late_fee]
        ELSE table[i]]

return_book(loan_id, actor) ==
    IF loan_id \notin DOMAIN loans
    THEN /\ result' = Returned("return_book", Failure("Loan not found."))
         /\ UNCHANGED <<books, bookSeq, members, memberSeq, loans, settings,
                        users, audit_log, now, username>>
    ELSE IF IsReturned(loans[loan_id])
    THEN /\ result' = Returned("return_book", Failure("Already returned."))
         /\ UNCHANGED <<books, bookSeq, members, memberSeq, loans, settings,
                        users, audit_log, now, username>>
    ELSE LET loan == loans[loan_id]
             late_fee == LateFee(loan, now, late_fee_per_day)
         IN
         /\ Len(audit_log) < MaxAudit
         /\ loans' = CloseLoan(loans, loan_id, now, late_fee)
         /\ books' = SetAvailable(books, loan.book_id, 1)
         /\ audit_log' = log_audit(audit_log, ActorOrUnknown(actor),
                "return_book", <<"loan:", loan_id, " late_fee:", late_fee>>)
         /\ result' = Returned("return_book",
                <<[success |-> TRUE,
                   message |-> <<"Returned. Late fee: ", late_fee>>,
                   late_fee |-> late_fee]>>)
         /\ UNCHANGED <<bookSeq, members, memberSeq, settings, users, now, username>>

\* FROM loans JOIN books ... JOIN members ... [WHERE date_returned IS NULL]:
\* the loans whose book row and member row are there
JoinedLoans(show_all) ==
    {l \in DOMAIN loans :
        /\ loans[l].book_id \in DOMAIN books
        /\ loans[l].member_id \in DOMAIN members
        /\ show_all \/ loans[l].date_returned = NULL}

\* a row of the join
LoanRow(l) ==
    [loan_id |-> l, book_id |-> loans[l].book_id,
     member_id |-> loans[l].member_id,
     date_borrowed |-> loans[l].date_borrowed,
     date_due |-> loans[l].date_due,
     date_returned |-> loans[l].date_returned,
     late_fee |-> loans[l].late_fee,
     book_title |-> books[loans[l].book_id].title,
     member_name |-> members[loans[l].member_id].name]

\* the row lists list_loans(show_all) can return
list_loans(show_all) ==
    LET ids == JoinedLoans(show_all)
        key == [l \in ids |-> loans[l].date_borrowed]
    IN { [k \in 1..Len(o) |-> LoanRow(o[k])] : o \in OrderedDesc(ids, key) }

\* the same join without the two id columns, never filtered
get_all_loans_for_export ==
    { [k \in 1..Len(rows) |->
          [c \in DOMAIN rows[k] \ {"book_id", "member_id"} |-> rows[k][c]]] :
      rows \in list_loans(TRUE) }

\* --------------------------------------------------------------- settings
\* str(value): every caller passes a str, which str() returns as it is
str(value) == value

\* variant: INSERT OR IGNORE, the key that is there keeps its value
UpsertSetting_Ignore(table, key, value) ==
    IF key \in DOMAIN table THEN table ELSE InsertRow(table, key, value)

\* INSERT OR REPLACE INTO settings (key, value): key is the PRIMARY KEY
UpsertSetting(table, key, value) == InsertRow(table, key, value)

set_setting(key, value, actor) ==
    /\ Len(audit_log) < MaxAudit
    /\ settings' = UpsertSetting(settings, key, str(value))
    /\ audit_log' = log_audit(audit_log, ActorOrUnknown(actor), "set_setting",
                              <<key, "=", value>>)
    /\ result' = Returned("set_setting", None)
    /\ UNCHANGED <<books, bookSeq, members, memberSeq, loans, users, now, username>>

\* ----------------------------------------------------------------- users
\* an exception left the operation
Raised(op, exc) == [op |-> op, ret |-> <<[raised |-> exc]>>]

\* the ids of the rows WHERE username=?
UserIds(table, name) == {i \in DOMAIN table : table[i].username = name}

\* SELECT * FROM users WHERE username=? ; fetchone(): None, or <<row>>
UserRow(table, name) ==
    IF UserIds(table, name) = {} THEN None
    ELSE <<table[CHOOSE i \in UserIds(table, name) :
                     \A j \in UserIds(table, name) : i <= j]>>

\* variant: the UNIQUE constraint on username is not declared
UsernameTaken_Never(table, name) == FALSE

\* username TEXT UNIQUE NOT NULL: the INSERT raises sqlite3.IntegrityError
UsernameTaken(table, name) == UserIds(table, name) # {}

\* INSERT INTO users (username, password_hash, role) VALUES (?, ?, ?)
InsertUser(table, name, password_plain, role, salt) ==
    Append(table, [username |-> name,
                   password_hash |-> hashpw(password_plain, salt),
                   role |-> role])

\* the audit row of create_user: its actor is the user created
CreateUserAudit(log, name, role) ==
    log_audit(log, name, "create_user", <<"created user ", name, role>>)

create_user(name, password_plain, role, salt) ==
    IF UsernameTaken(users, name)
    THEN /\ result' = Raised("create_user", "IntegrityError")
         /\ UNCHANGED <<books, bookSeq, members, memberSeq, loans, settings,
                        users, audit_log, now, username>>
    ELSE /\ Len(audit_log) < MaxAudit
         /\ users' = InsertUser(users, name, password_plain, role, salt)
         /\ audit_log' = CreateUserAudit(audit_log, name, role)
         /\ result' = Returned("create_user", None)
         /\ UNCHANGED <<books, bookSeq, members, memberSeq, loans, settings,
                        now, username>>

verify_user(name, password_plain) ==
    LET row == UserRow(users, name) IN
    IF row = None THEN FALSE
    ELSE checkpw(password_plain, row[1].password_hash)

\* variant: the new hash is not written
StoreHash_Skipped(table, name, hashed) == table

\* variant: the UPDATE has no WHERE
StoreHash_AllRows(table, name, hashed) ==
    [i \in DOMAIN table |-> [table[i] EXCEPT !.password_hash = hashed]]

\* variant: a user name without a row gets a new staff row with the hash
StoreHash_Upsert(table, name, hashed) == IF UserIds(table, name) = {} THEN Append(table, [username |-> name, password_hash |-> hashed, role |-> "staff"]) ELSE [i \in DOMAIN table |-> IF table[i].username = name THEN [table[i] EXCEPT !.password_hash = hashed] ELSE table[i]]

\* UPDATE users SET password_hash=? WHERE username=?
StoreHash(table, name, hashed) ==
    [i \in DOMAIN table |->
        IF table[i].username = name
        THEN [table[i] EXCEPT !.password_hash = hashed]
        ELSE table[i]]

change_user_password(name, old_password_plain, new_password_plain, salt) ==
    IF ~verify_user(name, old_password_plain)
    THEN /\ result' = Returned("change_user_password",
                               Failure("Current password incorrect."))
         /\ UNCHANGED <<books, bookSeq, members, memberSeq, loans, settings,
                        users, audit_log, now, username>>
    ELSE /\ Len(audit_log) < MaxAudit
         /\ users' = StoreHash(users, name, hashpw(new_password_plain, salt))
         /\ audit_log' = log_audit(audit_log, name, "change_password",
                <<"user ", name, " changed their password">>)
         /\ result' = Returned("change_user_password",
                <<[success |-> TRUE, message |-> "Password changed."]>>)
         /\ UNCHANGED <<books, bookSeq, members, memberSeq, loans, settings,
                        now, username>>

admin_reset_password(admin_username, target_username, new_password_plain, salt) ==
    /\ Len(audit_log) < MaxAudit
    /\ users' = StoreHash(users, target_username,
                          hashpw(new_password_plain, salt))
    /\ audit_log' = log_audit(audit_log, admin_username,
           "admin_reset_password",
           <<"admin ", admin_username, " reset password for ",
             target_username>>)
    /\ result' = Returned("admin_reset_password",
           <<[success |-> TRUE,
              message |-> <<"Password for ", target_username, " reset.">>]>>)
    /\ UNCHANGED <<books, bookSeq, members, memberSeq, loans, settings, now,
                   username>>

get_user_role(name) ==
    IF UserRow(users, name) = None THEN None
    ELSE <<UserRow(users, name)[1].role>>

\* variant: INSERT OR REPLACE
SeedSettings_Replace(table) == DefaultSettings

\* INSERT OR IGNORE INTO settings: a key that is there keeps its value
SeedSettings(table) ==
    [k \in DOMAIN table \cup DOMAIN DefaultSettings |->
        IF k \in DOMAIN table THEN table[k] ELSE DefaultSettings[k]]

any_user_exists == Len(users) > 0

\* the tables are created if they do not exist, the settings are seeded
\* and create_default_admin_if_missing runs
init_db(salt) ==
    /\ settings' = SeedSettings(settings)
    /\ IF ~any_user_exists
       THEN /\ Len(audit_log) + 1 < MaxAudit
            /\ users' = InsertUser(users, "admin", "admin", "admin", salt)
            /\ audit_log' =
                  log_audit(CreateUserAudit(audit_log, "admin", "admin"),
                            "system", "create_default_admin",
                            <<"created default admin user 'admin'">>)
       ELSE UNCHANGED <<users, audit_log>>
    /\ result' = Returned("init_db", None)
    /\ UNCHANGED <<books, bookSeq, members, memberSeq, loans, now, username>>

\* LoginWindow.try_login: the user who logs in becomes LibraryApp.username
try_login(name, password) ==
    /\ username' = IF verify_user(name, password) THEN <<name>> ELSE username
    /\ self_role' = IF verify_user(name, password)
                    THEN (IF get_user_role(name) \in {None, <<"">>}
                          THEN <<"staff">> ELSE get_user_role(name))
                    ELSE self_role
    /\ result' = Returned("try_login", None)
    /\ UNCHANGED <<books, bookSeq, members, memberSeq, loans, settings,
                   users, audit_log, now>>

\* ------------------------------------------------------------ operations
\* every call passes actor = LibraryApp.username, the user who logged in
AddBook ==
    \E title \in Titles, author \in Texts, category \in Texts,
       isbn \in Texts :
        add_book(title, author, category, isbn, username)

UpdateBook ==
    \E bid \in BookIds, title \in EditedTitles, author \in Texts,
       category \in Texts, isbn \in Texts :
        update_book_action(bid, title, author, category, isbn)

DeleteBook == \E book_id \in BookIds : delete_book(book_id, username)

AddMember == \E name \in Names, email \in Texts :
    add_member(name, email, username)

BorrowBook ==
    \E book_id \in BookIds, member_id \in MemberIds, days_due \in DaysDue :
        borrow_book(book_id, member_id, days_due, username)

\* the loans there are and one id that is not a loan
LoanIds == 1..(Len(loans) + 1)

ReturnBook == \E loan_id \in LoanIds : return_book(loan_id, username)

SetSetting == \E kv \in SettingInputs : set_setting(kv[1], kv[2], username)

Next ==
    \/ Tick /\ Quiet
    \/ AddBook /\ Quiet
    \/ UpdateBook /\ Quiet
    \/ DeleteBook /\ Quiet
    \/ AddMember /\ Quiet
    \/ BorrowBook /\ Quiet
    \/ ReturnBook /\ Quiet
    \/ SetSetting /\ Quiet

Spec == Init /\ [][Next]_vars

\* set_setting: the late fee per day is set
SetRate == set_setting("late_fee_per_day", NewRate, username)

\* the loan operations alone
NextLoan ==
    \/ Tick /\ Quiet
    \/ AddBook /\ Quiet
    \/ BorrowBook /\ Quiet
    \/ ReturnBook /\ Quiet
    \/ SetRate /\ Quiet

SpecLoan == Init /\ [][NextLoan]_vars

\* the operations on books and loans
NextBooks ==
    \/ Tick /\ Quiet
    \/ AddBook /\ Quiet
    \/ UpdateBook /\ Quiet
    \/ DeleteBook /\ Quiet
    \/ BorrowBook /\ Quiet
    \/ ReturnBook /\ Quiet

SpecBooks == Init /\ [][NextBooks]_vars

\* books are added, lent to member 1, returned and deleted
DeleteBorrow == \E book_id \in BookIds : borrow_book(book_id, 1, 0, username)

NextDelete ==
    \/ Tick /\ Quiet
    \/ AddBook /\ Quiet
    \/ DeleteBorrow /\ Quiet
    \/ ReturnBook /\ Quiet
    \/ DeleteBook /\ Quiet

SpecDelete == Init /\ [][NextDelete]_vars

\* ------------------------------------------------ the user operations
CreateUser ==
    \E name \in Usernames, password \in Passwords, role \in Roles,
       salt \in Salts :
        create_user(name, password, role, salt)

\* a call of verify_user: it reads and returns
verify_user_call(name, password) ==
    /\ result' = Returned("verify_user", <<verify_user(name, password)>>)
    /\ UNCHANGED <<books, bookSeq, members, memberSeq, loans, settings,
                   users, audit_log, now, username>>

VerifyUser ==
    \E name \in Usernames, password \in Passwords :
        verify_user_call(name, password)

ChangeUserPassword ==
    \E name \in Usernames, old \in Passwords, new \in Passwords,
       salt \in Salts :
        change_user_password(name, old, new, salt)

AdminResetPassword ==
    \E target \in Usernames, new \in Passwords, salt \in Salts :
        admin_reset_password(username[1], target, new, salt)

Login ==
    \E name \in Usernames, password \in Passwords :
        try_login(name, password)

\* a short run: the audit rows it may write
ShortRun == Len(audit_log) < ShortAudit

\* the user operations, all at one time
NextAuth ==
    \/ ShortRun /\ CreateUser /\ Quiet
    \/ ShortRun /\ VerifyUser /\ Quiet
    \/ ShortRun /\ ChangeUserPassword /\ Quiet
    \/ ShortRun /\ AdminResetPassword /\ Quiet
    \/ ShortRun /\ Login /\ UNCHANGED <<conns, outbox, loan_tree, audit_tree>>

SpecAuth == Init /\ [][NextAuth]_vars

\* ---------------------------------------------- a session from the start
\* The store file does not exist yet: init_db creates it, a user logs in and
\* works; a logout starts the program again, and with it init_db.
Fresh ==
    /\ books = << >>
    /\ bookSeq = 0
    /\ members = << >>
    /\ memberSeq = 0
    /\ loans = << >>
    /\ settings = << >>
    /\ users = << >>
    /\ now = 0
    /\ username = None
    /\ self_role = None
    /\ conns = [c \in Callers |-> Closed]
    /\ outbox = << >>
    /\ loan_tree = << >>
    /\ audit_tree = << >>
    /\ audit_log = << >>
    /\ result = Returned("import", None)

InitDb == \E salt \in Salts : init_db(salt)

\* nobody works before a login; the run is short
SessionOpen == username # None /\ ShortRun

SessionLogin ==
    /\ any_user_exists
    /\ \E password \in Passwords : try_login("admin", password)

SessionUpdateBook == update_book_action(1, "t2", "", "", "")

SessionDeleteBook == delete_book(1, username)

SessionBorrow == borrow_book(1, 1, 0, username)

SessionReturn == return_book(1, username)

SessionCreateUser == create_user("bob", "pw", "admin", 2)

SessionChangePassword ==
    \E old \in Passwords : change_user_password(username[1], old, "pw", 2)

SessionResetPassword ==
    \E target \in Usernames :
        admin_reset_password(username[1], target, "admin", 1)

NextSession ==
    \/ InitDb /\ Quiet
    \/ SessionLogin /\ UNCHANGED <<conns, outbox, loan_tree, audit_tree>>
    \/ SessionOpen /\ Tick /\ Quiet
    \/ SessionOpen /\ AddBook /\ Quiet
    \/ SessionOpen /\ SessionUpdateBook /\ Quiet
    \/ SessionOpen /\ SessionDeleteBook /\ Quiet
    \/ SessionOpen /\ AddMember /\ Quiet
    \/ SessionOpen /\ SessionBorrow /\ Quiet
    \/ SessionOpen /\ SessionReturn /\ Quiet
    \/ SessionOpen /\ SetRate /\ Quiet
    \/ SessionOpen /\ SessionCreateUser /\ Quiet
    \/ SessionOpen /\ SessionChangePassword /\ Quiet
    \/ SessionOpen /\ SessionResetPassword /\ Quiet

SpecSession == Fresh /\ [][NextSession]_vars

\* --------------------------------------------- the settings page and mail
\* int(text): <<n>>, or << >> when int() raises; the texts of the settings
\* page are stripped, so a text is a number when it is digits alone
int(s) ==
    IF Len(s) > 0 /\ \A i \in 1..Len(s) : IsDigit(s[i])
    THEN <<DigitsValue(s)>> ELSE << >>

\* the decimal digits of a natural number
RECURSIVE DigitsText(_)
DigitsText(n) ==
    IF n < 10 THEN <<DigitChars[n + 1]>>
    ELSE DigitsText(n \div 10) \o <<DigitChars[(n % 10) + 1]>>

\* str(v) of the float v, given in hundredths: 75 is "0.75", 50 "0.5" and
\* 100 "1.0"
float_str(v) ==
    DigitsText(v \div 100) \o <<".">> \o
        (IF v % 10 = 0 THEN DigitsText((v % 100) \div 10)
         ELSE DigitsText((v % 100) \div 10) \o DigitsText(v % 10))

\* the mail send_email may hand to the SMTP server
MaxMail == 1

\* mailer.send_email with _get_smtp_config: int() of the stored port runs
\* before the try block; the delivery succeeds or fails
send_email(to_address, subject) ==
    LET text(key) == IF get_setting(key) = None THEN << >>
                     ELSE get_setting(key)[1]
        port_set == text("smtp_port") # << >>
        port == IF port_set THEN int(text("smtp_port")) ELSE None
        configured == /\ text("smtp_host") # << >>
                      /\ port # None /\ port # <<0>>
                      /\ text("smtp_user") # << >>
                      /\ text("smtp_password") # << >>
    IN /\ IF port_set /\ int(text("smtp_port")) = << >>
          THEN /\ result' = Raised("send_email", "ValueError")
               /\ UNCHANGED outbox
          ELSE IF ~configured
          THEN /\ result' = Returned("send_email",
                                     Failure("SMTP not configured"))
               /\ UNCHANGED outbox
          ELSE \/ /\ Len(outbox) < MaxMail
                  /\ outbox' = Append(outbox, [to |-> to_address,
                                               subject |-> subject])
                  /\ result' = Returned("send_email",
                                        <<[success |-> TRUE]>>)
               \/ /\ result' = Returned("send_email", Failure("str(e)"))
                  /\ UNCHANGED outbox
       /\ UNCHANGED <<books, bookSeq, members, memberSeq, loans, settings,
                      users, audit_log, now, username, self_role, conns,
                      loan_tree, audit_tree>>

\* the audit rows of a run of the settings page
GuiAudit == 9

\* variant: the two admin forms are built for every session
AdminWidgets_All == self_role # None

\* if self.role == "admin": the Create Admin and Reset Password forms
AdminWidgets == self_role = <<"admin">>

\* Save of the late fee: v is the float of the entry, in hundredths
save_settings(v) ==
    /\ Len(audit_log) + 2 <= GuiAudit
    /\ settings' = UpsertSetting(settings, "late_fee_per_day", float_str(v))
    /\ audit_log' =
          log_audit(log_audit(audit_log, ActorOrUnknown(username),
                              "set_setting",
                              <<"late_fee_per_day", "=", float_str(v)>>),
                    username[1], "save_settings",
                    <<"late_fee_per_day=", float_str(v)>>)
    /\ result' = Returned("save_settings", None)
    /\ UNCHANGED <<books, bookSeq, members, memberSeq, loans, users, now,
                   username, self_role, conns, outbox,
                   loan_tree, audit_tree>>

\* Save SMTP Settings: four set_setting calls and a log_audit call
save_smtp_settings(host, port, user, pw) ==
    LET a == ActorOrUnknown(username)
        l1 == log_audit(audit_log, a, "set_setting", <<"smtp_host", "=", host>>)
        l2 == log_audit(l1, a, "set_setting", <<"smtp_port", "=", port>>)
        l3 == log_audit(l2, a, "set_setting", <<"smtp_user", "=", user>>)
        l4 == log_audit(l3, a, "set_setting", <<"smtp_password", "=", pw>>)
    IN /\ Len(audit_log) + 5 <= GuiAudit
       /\ settings' =
             UpsertSetting(UpsertSetting(UpsertSetting(UpsertSetting(
                 settings, "smtp_host", host), "smtp_port", port),
                 "smtp_user", user), "smtp_password", pw)
       /\ audit_log' = log_audit(l4, username[1], "save_smtp",
                                 <<"host=", host, " user=", user>>)
       /\ result' = Returned("save_smtp_settings", None)
       /\ UNCHANGED <<books, bookSeq, members, memberSeq, loans, users, now,
                      username, self_role, conns, outbox,
                   loan_tree, audit_tree>>

\* Change Password: change_user_password and, when it succeeds, a
\* log_audit call of the page
change_password_action(cur, new, salt) ==
    /\ IF ~verify_user(username[1], cur)
       THEN /\ result' = Returned("change_password_action",
                                  Failure("Current password incorrect."))
            /\ UNCHANGED <<users, audit_log>>
       ELSE /\ Len(audit_log) + 2 <= GuiAudit
            /\ users' = StoreHash(users, username[1], hashpw(new, salt))
            /\ audit_log' =
                  log_audit(log_audit(audit_log, username[1],
                                "change_password",
                                <<"user ", username[1],
                                  " changed their password">>),
                            username[1], "change_password",
                            <<"user changed own password">>)
            /\ result' = Returned("change_password_action",
                   <<[success |-> TRUE, message |-> "Password changed."]>>)
    /\ UNCHANGED <<books, bookSeq, members, memberSeq, loans, settings, now,
                   username, self_role, conns, outbox,
                   loan_tree, audit_tree>>

\* Create Admin: create_user(u, p, role="admin") inside try/except
create_admin_action(u, p, salt) ==
    /\ AdminWidgets
    /\ IF UsernameTaken(users, u)
       THEN /\ result' = Returned("create_admin_action",
                                  Failure("Could not create user"))
            /\ UNCHANGED <<users, audit_log>>
       ELSE /\ Len(audit_log) + 1 <= GuiAudit
            /\ users' = InsertUser(users, u, p, "admin", salt)
            /\ audit_log' = CreateUserAudit(audit_log, u, "admin")
            /\ result' = Returned("create_admin_action", None)
    /\ UNCHANGED <<books, bookSeq, members, memberSeq, loans, settings, now,
                   username, self_role, conns, outbox,
                   loan_tree, audit_tree>>

\* Reset Password: admin_reset_password and a log_audit call of the page
admin_reset_action(target, new, salt) ==
    /\ AdminWidgets
    /\ Len(audit_log) + 2 <= GuiAudit
    /\ users' = StoreHash(users, target, hashpw(new, salt))
    /\ audit_log' =
          log_audit(log_audit(audit_log, username[1], "admin_reset_password",
                        <<"admin ", username[1], " reset password for ",
                          target>>),
                    username[1], "admin_reset_password",
                    <<"reset for ", target>>)
    /\ result' = Returned("admin_reset_action",
           <<[success |-> TRUE,
              message |-> <<"Password for ", target, " reset.">>]>>)
    /\ UNCHANGED <<books, bookSeq, members, memberSeq, loans, settings, now,
                   username, self_role, conns, outbox,
                   loan_tree, audit_tree>>

\* what is typed into the SMTP form: a full configuration, an empty one
\* and one whose port is no number
SmtpInputs ==
    { << <<"h">>, <<"5", "8", "7">>, <<"u">>, <<"p">> >>,
      << << >>, << >>, << >>, << >> >>,
      << <<"h">>, <<"a">>, <<"u">>, <<"p">> >> }

\* late fees typed into the form, in hundredths
LateFees == {50, 75}

\* a user of role staff is there: the users table holds the roles admin
\* and staff, and create_user takes the role as an argument
ProvisionStaff == create_user("bob", "pw", "staff", 1)

\* the settings page of the user who is logged in, the test mail and the
\* change of user
NextGui ==
    \/ ProvisionStaff /\ Quiet
    \/ Login /\ UNCHANGED <<conns, outbox, loan_tree, audit_tree>>
    \/ \E v \in LateFees : save_settings(v)
    \/ \E s \in SmtpInputs : save_smtp_settings(s[1], s[2], s[3], s[4])
    \/ \E cur \in Passwords : change_password_action(cur, "pw", 2)
    \/ create_admin_action("bob", "pw", 2)
    \/ \E target \in Usernames : admin_reset_action(target, "admin", 2)
    \/ send_email(<<"u">>, "Library SMTP test")

SpecGui == Init /\ [][NextGui]_vars

\* ----------------------------------------------- the settings alone
SettingKeys == {"late_fee_per_day", "smtp_host", "theme"}
SettingValues == {NewRate, <<"h">>, << >>}

SetAnySetting ==
    \E key \in SettingKeys, value \in SettingValues :
        set_setting(key, value, username)

GetSetting ==
    \E key \in SettingKeys :
        /\ result' = Returned("get_setting", get_setting(key))
        /\ UNCHANGED <<books, bookSeq, members, memberSeq, loans, settings,
                       users, audit_log, now, username>>

\* settings are written and read; the program starts again in between
NextSettings ==
    \/ ShortRun /\ SetAnySetting /\ Quiet
    \/ GetSetting /\ Quiet
    \/ InitDb /\ Quiet

SpecSettings == Init /\ [][NextSettings]_vars

\* ------------------------------------- borrow and return, by statement
\* Two callers, each with a connection of its own, run borrow_book and
\* return_book one statement at a time.  sqlite3.connect leaves
\* isolation_level at its default: a SELECT runs outside a transaction,
\* the first INSERT or UPDATE opens one, and what it writes stays in the
\* connection until commit().  One connection writes at a time.
\* what the statements of caller c read
View(c) ==
    IF conns[c].tx = None THEN [books |-> books, loans |-> loans]
    ELSE conns[c].tx[1]

\* another connection holds the write lock
Locked(c) == \E d \in Callers \ {c} : conns[d].tx # None

\* variant: autocommit, every statement is written to the file at once
Stage_Autocommit(c, view, pc) ==
    /\ conns' = [conns EXCEPT ![c].pc = pc]
    /\ books' = view.books
    /\ loans' = view.loans

\* an INSERT or UPDATE inside the open transaction of c
Stage(c, view, pc) ==
    /\ conns' = [conns EXCEPT ![c].tx = <<view>>, ![c].pc = pc]
    /\ UNCHANGED <<books, loans>>

\* borrow_book up to its first write: the SELECT and the two tests
BeginBorrow(c, book_id, member_id, days_due) ==
    /\ conns[c].pc = "idle"
    /\ IF book_id \notin DOMAIN books
       THEN /\ result' = Returned("borrow_book", Failure("Book not found."))
            /\ UNCHANGED conns
       ELSE IF ~IsAvailable(books[book_id])
       THEN /\ result' = Returned("borrow_book",
                                  Failure("Book currently not available."))
            /\ UNCHANGED conns
       ELSE /\ conns' = [conns EXCEPT ![c] =
                   [pc |-> "checked",
                    call |-> <<[op |-> "borrow_book", book_id |-> book_id,
                                member_id |-> member_id, at |-> now,
                                due |-> DueTime(now, days_due)]>>,
                    row |-> <<books[book_id]>>, tx |-> None, ret |-> None]]
            /\ UNCHANGED result
    /\ UNCHANGED <<books, bookSeq, members, memberSeq, loans, settings,
                   users, audit_log, now, username, self_role, outbox,
                   loan_tree, audit_tree>>

\* return_book up to its first write: the SELECT, the two tests, the fee
BeginReturn(c, loan_id) ==
    /\ conns[c].pc = "idle"
    /\ IF loan_id \notin DOMAIN loans
       THEN /\ result' = Returned("return_book", Failure("Loan not found."))
            /\ UNCHANGED conns
       ELSE IF IsReturned(loans[loan_id])
       THEN /\ result' = Returned("return_book", Failure("Already returned."))
            /\ UNCHANGED conns
       ELSE /\ conns' = [conns EXCEPT ![c] =
                   [pc |-> "checked",
                    call |-> <<[op |-> "return_book", loan_id |-> loan_id,
                                book_id |-> loans[loan_id].book_id,
                                at |-> now,
                                late_fee |-> LateFee(loans[loan_id], now,
                                                     late_fee_per_day)]>>,
                    row |-> <<loans[loan_id]>>, tx |-> None, ret |-> None]]
            /\ UNCHANGED result
    /\ UNCHANGED <<books, bookSeq, members, memberSeq, loans, settings,
                   users, audit_log, now, username, self_role, outbox,
                   loan_tree, audit_tree>>

\* the two writes of a call, one at a time: the loan row, then the flag
Write(c) ==
    LET k == conns[c].call[1]
        v == View(c)
    IN /\ \/ /\ conns[c].pc = "checked"
             /\ ~Locked(c)
             /\ Stage(c, [v EXCEPT !.loans =
                            IF k.op = "borrow_book"
                            THEN Append(@, NewLoan(k.book_id, k.member_id,
                                                   k.at, k.due))
                            ELSE CloseLoan(@, k.loan_id, k.at, k.late_fee)],
                      "written1")
          \/ /\ conns[c].pc = "written1"
             /\ Stage(c, [v EXCEPT !.books =
                            SetAvailable(@, k.book_id,
                                IF k.op = "borrow_book" THEN 0 ELSE 1)],
                      "written2")
       /\ UNCHANGED <<bookSeq, members, memberSeq, settings, users,
                      audit_log, now, username, result, self_role, outbox,
                   loan_tree, audit_tree>>

\* variant: the call goes on without its writes having reached the file
Commit_Lost(c) ==
    /\ conns[c].pc = "written2"
    /\ conns' = [conns EXCEPT ![c].tx = None, ![c].pc = "committed"]
    /\ UNCHANGED <<books, loans, bookSeq, members, memberSeq, settings, users,
                   audit_log, now, username, result, self_role, outbox,
                   loan_tree, audit_tree>>

\* conn.commit(): the writes of c reach the file
Commit(c) ==
    /\ conns[c].pc = "written2"
    /\ books' = View(c).books
    /\ loans' = View(c).loans
    /\ conns' = [conns EXCEPT ![c].tx = None, ![c].pc = "committed"]
    /\ UNCHANGED <<bookSeq, members, memberSeq, settings, users,
                   audit_log, now, username, result, self_role, outbox,
                   loan_tree, audit_tree>>

\* conn.close(), log_audit and the return of the call
Finish(c) ==
    LET k == conns[c].call[1] IN
    /\ conns[c].pc = "committed"
    /\ ~Locked(c)
    /\ Len(audit_log) < MaxAudit
    /\ audit_log' = log_audit(audit_log, ActorOrUnknown(username), k.op,
            IF k.op = "borrow_book"
            THEN <<"book:", k.book_id, " member:", k.member_id, " due:",
                   date(k.due)>>
            ELSE <<"loan:", k.loan_id, " late_fee:", k.late_fee>>)
    /\ result' = Returned(k.op,
            IF k.op = "borrow_book"
            THEN <<[success |-> TRUE,
                    message |-> <<"Borrowed successfully; due on ",
                                  date(k.due)>>]>>
            ELSE <<[success |-> TRUE,
                    message |-> <<"Returned. Late fee: ", k.late_fee>>,
                    late_fee |-> k.late_fee]>>)
    /\ conns' = [conns EXCEPT ![c] = Closed]
    /\ UNCHANGED <<books, bookSeq, members, memberSeq, loans, settings,
                   users, now, username, self_role, outbox,
                   loan_tree, audit_tree>>

\* a call ends with an exception: a statement fails in the middle of the
\* transaction, or the first write finds the lock with the other connection
\* until the timeout; the connection is dropped and with it what it had
\* not committed
Fail(c) ==
    /\ \/ /\ conns[c].pc \in {"written1", "written2"}
          /\ result' = Raised(conns[c].call[1].op, "Error")
       \/ /\ conns[c].pc = "checked"
          /\ Locked(c)
          /\ result' = Raised(conns[c].call[1].op, "OperationalError")
    /\ conns' = [conns EXCEPT ![c] = Closed]
    /\ UNCHANGED <<books, bookSeq, members, memberSeq, loans, settings,
                   users, audit_log, now, username, self_role, outbox,
                   loan_tree, audit_tree>>

\* the audit rows written and those the running calls will write
Started ==
    Len(audit_log) + Cardinality({c \in Callers : conns[c].pc # "idle"})

\* books are added while no call is writing; the two callers borrow and
\* return
NextConc ==
    \/ /\ Started < MaxAudit
       /\ \A c \in Callers : conns[c].tx = None
       /\ AddBook /\ Quiet
    \/ /\ Started < MaxAudit
       /\ \E c \in Callers, book_id \in BookIds :
             BeginBorrow(c, book_id, 1, 0)
    \/ /\ Started < MaxAudit
       /\ \E c \in Callers, loan_id \in LoanIds : BeginReturn(c, loan_id)
    \/ \E c \in Callers : Write(c)
    \/ \E c \in Callers : Commit(c)
    \/ \E c \in Callers : Finish(c)
    \/ \E c \in Callers : Fail(c)

SpecConc == Init /\ [][NextConc]_vars

\* the same, and while no call is writing book 1 is deleted, users are
\* created and the user logged in changes their password
NextOrder ==
    \/ NextConc
    \/ /\ Started < MaxAudit
       /\ \A c \in Callers : conns[c].tx = None
       /\ \/ SessionDeleteBook /\ Quiet
          \/ (\E name \in Usernames : create_user(name, "pw", "staff", 2)) /\ Quiet
          \/ SessionChangePassword /\ Quiet

SpecOrder == Init /\ [][NextOrder]_vars

\* ------------------------------------------------- the loan lists
\* the result of a listing keeps the argument of the call beside the rows
ListLoans ==
    /\ \E show_all \in BOOLEAN : \E rows \in list_loans(show_all) :
          result' = [op |-> "list_loans", ret |-> <<rows>>,
                     args |-> [show_all |-> show_all]]
    /\ UNCHANGED <<books, bookSeq, members, memberSeq, loans, settings,
                   users, audit_log, now, username>>

ExportLoans ==
    /\ \E rows \in get_all_loans_for_export :
          result' = Returned("get_all_loans_for_export", <<rows>>)
    /\ UNCHANGED <<books, bookSeq, members, memberSeq, loans, settings,
                   users, audit_log, now, username>>

\* a member is registered, books are added, lent, returned and deleted,
\* and the loans are listed
NextList ==
    \/ Tick /\ Quiet
    \/ AddMember /\ Quiet
    \/ AddBook /\ Quiet
    \/ DeleteBorrow /\ Quiet
    \/ ReturnBook /\ Quiet
    \/ DeleteBook /\ Quiet
    \/ ListLoans /\ Quiet
    \/ ExportLoans /\ Quiet

SpecList == Init /\ [][NextList]_vars

\* ------------------------------------------------- the rate of the fee
\* texts set_setting can store as late_fee_per_day: a rate, a negative
\* number and a text that is no number
RateTexts == {NewRate, <<"-", "1">>, <<"a", "b", "c">>}

SetAnyRate ==
    \E value \in RateTexts : set_setting("late_fee_per_day", value, username)

\* lines 303-307 of return_book on what get_setting can return: the rate
\* for a missing setting and for every stored text, taken while there is
\* no loan yet
ReadRate ==
    /\ loans = << >>
    /\ \E late_fee_setting \in {None} \cup {<<value>> : value \in RateTexts} :
          result' = [op |-> "late_fee_per_day",
                     ret |-> <<RateOf(late_fee_setting)>>,
                     args |-> [late_fee_setting |-> late_fee_setting]]
    /\ UNCHANGED <<books, bookSeq, members, memberSeq, loans, settings,
                   users, audit_log, now, username>>

\* a book is lent and returned while the rate is set to any of the texts
NextRate ==
    \/ Tick /\ Quiet
    \/ AddBook /\ Quiet
    \/ DeleteBorrow /\ Quiet
    \/ ReturnBook /\ Quiet
    \/ SetAnyRate /\ Quiet
    \/ ReadRate /\ Quiet

SpecRate == Init /\ [][NextRate]_vars

\* ------------------------------------------------- the audit view
\* load_audit asks for 500 rows; smaller limits cut the list
Limits == {0, 1, 2, 500}
Sinces == {None, <<1>>}

\* the result of a query keeps the arguments of the call beside the rows
query_audit_call(limit, since) ==
    /\ \E rows \in query_audit(limit, since) :
          result' = [op |-> "query_audit", ret |-> <<rows>>,
                     args |-> [limit |-> limit, since |-> since]]
    /\ UNCHANGED <<books, bookSeq, members, memberSeq, loans, settings,
                   users, audit_log, now, username>>

QueryAudit ==
    \E limit \in Limits, since \in Sinces : query_audit_call(limit, since)

\* operations write audit rows as time passes, and the rows are queried
FewRows == Len(audit_log) < QueryRows

NextQuery ==
    \/ Tick /\ Quiet
    \/ FewRows /\ AddBook /\ Quiet
    \/ FewRows /\ SetRate /\ Quiet
    \/ QueryAudit /\ Quiet

SpecQuery == Init /\ [][NextQuery]_vars

\* ------------------------------------------------- the fee specification
\* One book is added, lent once and returned while the clock runs over
\* FeeMaxDay days and the rate is changed at most once: the same operations,
\* on inputs that cover every pair of due date and return date.

FeeMaxTime == (FeeMaxDay + 1) * SlotsPerDay - 1

FeeTick ==
    /\ now < FeeMaxTime
    /\ now' = now + 1
    /\ UNCHANGED <<books, bookSeq, members, memberSeq, loans, settings,
                   users, audit_log, username, result>>

FeeAddBook ==
    /\ bookSeq = 0
    /\ now = 0
    /\ add_book("t1", "", "", "", username)

FeeBorrow ==
    /\ loans = << >>
    /\ \E days_due \in DaysDue : borrow_book(1, 1, days_due, username)

FeeReturn == return_book(1, username)

FeeSetRate ==
    /\ settings["late_fee_per_day"] = DefaultSettings["late_fee_per_day"]
    /\ set_setting("late_fee_per_day", NewRate, username)

NextFee ==
    \/ FeeTick /\ Quiet
    \/ FeeAddBook /\ Quiet
    \/ FeeBorrow /\ Quiet
    \/ FeeReturn /\ Quiet
    \/ FeeSetRate /\ Quiet

SpecFee == Init /\ [][NextFee]_vars

\* ------------------------------------- the Borrow/Return and Audit frames
\* loan_tree and audit_tree are the rows shown in the active-loans table and
\* in the audit table of the window.  A class body with several definitions
\* of one method name keeps the last one: load_active_loans and load_audit
\* are the definitions at the end of LibraryApp.

\* the last load_active_loans: it replaces itself by "lambda: None" and
\* touches no widget, so the table keeps the rows it has
load_active_loans(tree) == tree

\* the last load_audit: "pass"
load_audit(tree) == tree

\* show_frame(name): raise the frame and run its loaders
show_frame(name) ==
    /\ loan_tree' = IF name = "borrow" THEN load_active_loans(loan_tree) ELSE loan_tree
    /\ audit_tree' = IF name = "audit" THEN load_audit(audit_tree) ELSE audit_tree
    /\ result' = [op |-> "show_frame", ret |-> None, args |-> [name |-> name]]
    /\ UNCHANGED <<books, bookSeq, members, memberSeq, loans, settings, users,
                   audit_log, now, username, self_role, conns, outbox>>

\* Borrow: the selected row of the book table, the chosen member, the days
borrow_action ==
    \E book_id \in DOMAIN books, member_id \in DOMAIN members, days \in DaysDue :
        IF books[book_id].available = 0
        THEN /\ result' = Returned("borrow_action", None)
             /\ UNCHANGED <<books, bookSeq, members, memberSeq, loans, settings,
                            users, audit_log, now, username, self_role, conns,
                            outbox, loan_tree, audit_tree>>
        ELSE /\ borrow_book(book_id, member_id, days, username)
             /\ loan_tree' = IF result'.ret[1].success
                             THEN load_active_loans(loan_tree) ELSE loan_tree
             /\ UNCHANGED <<self_role, conns, outbox, audit_tree>>

\* Return Selected: the selection is a row of the active-loans table
return_action ==
    IF loan_tree = << >>
    THEN /\ result' = Returned("return_action", None)
         /\ UNCHANGED <<books, bookSeq, members, memberSeq, loans, settings,
                        users, audit_log, now, username, self_role, conns,
                        outbox, loan_tree, audit_tree>>
    ELSE \E sel \in DOMAIN loan_tree :
            /\ return_book(loan_tree[sel].loan_id, username)
            /\ loan_tree' = IF result'.ret[1].success
                            THEN load_active_loans(loan_tree) ELSE loan_tree
            /\ UNCHANGED <<self_role, conns, outbox, audit_tree>>

\* the From and To entries: empty, or the text of a calendar date
ExportDates == {None} \cup {<<d>> : d \in 0..date(MaxTime)}

\* datetime.fromisoformat() of a date without a time: midnight of the date
fromisoformat_date(d) == fromisoformat(<<d[1], 0>>)

\* Export: the rows of get_all_loans_for_export, filtered when From or To
\* is given, written to the chosen file; no file chosen, nothing written
export_transactions_range(dfrom, dto, fmt, filename) ==
    \E all \in get_all_loans_for_export :
        LET Kept(r) ==
                /\ ~(dfrom # None /\ fromisoformat(r.date_borrowed) < fromisoformat_date(dfrom))
                /\ ~(dto # None /\ fromisoformat(r.date_borrowed) > fromisoformat_date(dto))
            rows == IF dfrom # None \/ dto # None THEN SelectSeq(all, Kept) ELSE all
        IN /\ IF filename = None
              THEN /\ result' = [op |-> "export_transactions_range", ret |-> None,
                                 args |-> [dfrom |-> dfrom, dto |-> dto]]
                   /\ UNCHANGED audit_log
              ELSE /\ Len(audit_log) < MaxAudit
                   /\ audit_log' = log_audit(audit_log, username[1], fmt,
                                             <<"exported ", Len(rows), " transactions">>)
                   /\ result' = [op |-> "export_transactions_range", ret |-> <<rows>>,
                                 args |-> [dfrom |-> dfrom, dto |-> dto]]
           /\ UNCHANGED <<books, bookSeq, members, memberSeq, loans, settings,
                          users, now, username, self_role, conns, outbox,
                          loan_tree, audit_tree>>

\* a member is registered, books are added, lent and returned at the
\* window, frames are shown and the loans are exported
NextDesk ==
    \/ Tick /\ Quiet
    \/ AddMember /\ Quiet
    \/ AddBook /\ Quiet
    \/ borrow_action
    \/ return_action
    \/ \E name \in {"borrow", "audit"} : show_frame(name)
    \/ \E dfrom \in ExportDates, dto \in ExportDates, fmt \in {"export_csv", "export_xlsx"}, filename \in {None, <<"f">>} :
          export_transactions_range(dfrom, dto, fmt, filename)

SpecDesk == Init /\ [][NextDesk]_vars

\* ------------------------------------------------------------ properties
TypeOK ==
    /\ \A b \in DOMAIN books : books[b].available \in {0, 1}
    /\ DOMAIN books \subseteq 1..bookSeq
    /\ DOMAIN loans = 1..Len(loans)
    /\ now >= 0

\* positions i < j of the audit log holding the actions a then b
AuditOrder(a, b) ==
    \E i, j \in 1..Len(audit_log) :
        i < j /\ audit_log[i].action = a /\ audit_log[j].action = b

\* C1: after any sequence of add_book, borrow_book and return_book calls a
\* book has available = 0 exactly when an open loan references it.
C1_AvailableIffOpenLoan ==
    \A b \in DOMAIN books :
        (books[b].available = 0) <=>
            (\E l \in DOMAIN loans :
                loans[l].book_id = b /\ loans[l].date_returned = NULL)

\* a book is out on its second loan after its first loan was returned
C1_Witness ==
    \E b \in DOMAIN books, l1, l2 \in DOMAIN loans :
        /\ books[b].available = 0
        /\ loans[l1].book_id = b /\ loans[l1].date_returned # NULL
        /\ loans[l2].book_id = b /\ loans[l2].date_returned = NULL

\* C2: in every state reachable by add_book, update_book_action,
\* delete_book, borrow_book and return_book no book is referenced by more
\* than one open loan.
C2_AtMostOneOpenLoan ==
    \A b \in BookIds :
        Cardinality({l \in DOMAIN loans :
            loans[l].book_id = b /\ loans[l].date_returned = NULL}) <= 1

\* C3: borrow_book on a missing book or on a book with available = 0
\* returns success = False with the matching message, for every member,
\* and leaves books, loans and audit_log unchanged.
C3_FailedBorrowChangesNothing ==
    [][\A b \in BookIds, m \in MemberIds, d \in DaysDue :
          (result'.op = "borrow_book" /\ borrow_book(b, m, d, username)) =>
            /\ b \notin DOMAIN books =>
                 /\ result'.ret =
                      <<[success |-> FALSE, message |-> "Book not found."]>>
                 /\ UNCHANGED <<books, loans, audit_log>>
            /\ (b \in DOMAIN books /\ books[b].available = 0) =>
                 /\ result'.ret =
                      <<[success |-> FALSE,
                         message |-> "Book currently not available."]>>
                 /\ UNCHANGED <<books, loans, audit_log>>]_vars

\* a borrow of a book that is out has just failed
C3_Witness ==
    /\ result.op = "borrow_book"
    /\ result.ret # None
    /\ result.ret[1].message = "Book currently not available."
    /\ \E b \in DOMAIN books : books[b].available = 0

\* C4: a successful borrow_book inserts exactly one loan row for the book
\* and member, open, with late_fee 0 and date_due = date_borrowed + days,
\* sets available to 0, and afterwards exactly one open loan references
\* the book.
C4_BorrowEffect ==
    [][\A b \in BookIds, m \in MemberIds, d \in DaysDue :
          (borrow_book(b, m, d, username) /\ result'.ret[1].success) =>
            /\ Len(loans') = Len(loans) + 1
            /\ \A l \in DOMAIN loans : loans'[l] = loans[l]
            /\ LET row == loans'[Len(loans')] IN
                 /\ row.book_id = b
                 /\ row.member_id = m
                 /\ row.date_returned = NULL
                 /\ row.late_fee = 0
                 /\ row.date_borrowed = <<now \div SlotsPerDay,
                                          now % SlotsPerDay>>
                 /\ row.date_due = <<row.date_borrowed[1] + d,
                                     row.date_borrowed[2]>>
            /\ books'[b].available = 0
            /\ Cardinality({l \in DOMAIN loans' :
                   loans'[l].book_id = b /\ loans'[l].date_returned = NULL})
                 = 1]_vars

\* C5: a return_book of a loan that is already returned fails with
\* "Already returned." and leaves the loans (date_returned and late_fee of
\* that loan included), the books and the audit log as they were, also after
\* a change of late_fee_per_day.
C5_SecondReturnChangesNothing ==
    [][\A l \in DOMAIN loans :
          (loans[l].date_returned # NULL /\ result'.op = "return_book"
             /\ return_book(l, username)) =>
            /\ result'.ret =
                 <<[success |-> FALSE, message |-> "Already returned."]>>
            /\ loans'[l].date_returned = loans[l].date_returned
            /\ loans'[l].late_fee = loans[l].late_fee
            /\ UNCHANGED <<loans, books, audit_log>>]_vars

\* a loan returned late, the rate changed afterwards, and a second return
\* of it has just failed
C5_Witness ==
    /\ result.op = "return_book"
    /\ result.ret # None
    /\ result.ret[1].message = "Already returned."
    /\ \E l \in DOMAIN loans :
          loans[l].date_returned # NULL /\ loans[l].late_fee > 0
    /\ settings["late_fee_per_day"] # <<"0", ".", "5", "0">>
    /\ AuditOrder("return_book", "set_setting")

\* the rate a late_fee_per_day text stands for, in hundredths
RateTable(text) ==
    CASE text = <<"0", ".", "5", "0">> -> 50
      [] text = <<"0", ".", "7", "5">> -> 75

\* the calendar days from the due date of a loan to the day of time t
DaysPastDue(loan, t) == (t \div SlotsPerDay) - loan.date_due[1]

\* C6: return_book stores late_fee = max(0, return date - due date in days)
\* * late_fee_per_day: 0 on the due date, 0.50 one day late at rate 0.50,
\* 7.50 ten days late at rate 0.75.
C6_LateFeeFormula ==
    [][\A l \in DOMAIN loans :
          (loans[l].date_returned = NULL /\ result'.op = "return_book"
             /\ return_book(l, username)) =>
            LET days == DaysPastDue(loans[l], now)
                rate == RateTable(settings["late_fee_per_day"])
                fee == loans'[l].late_fee
            IN /\ fee = (IF days > 0 THEN days ELSE 0) * rate
               /\ days = 0 => fee = 0
               /\ (days = 1 /\ rate = 50) => fee = 50
               /\ (days = 10 /\ rate = 75) => fee = 750]_vars

\* a loan returned ten days late at rate 0.75 carries 7.50, and a loan can
\* be returned before it is due
C6_Witness ==
    \E l \in DOMAIN loans :
        /\ loans[l].date_returned # NULL
        /\ loans[l].date_returned[1] = loans[l].date_due[1] + 10
        /\ loans[l].late_fee = 750

\* C7: the late days depend on the calendar dates only: a return at any
\* time of the due date's day, also after the due time, is charged 0, and a
\* return on the next day, also less than a day after the due time, is
\* charged one day.
C7_CalendarDays ==
    [][\A l \in DOMAIN loans :
          (loans[l].date_returned = NULL /\ result'.op = "return_book"
             /\ return_book(l, username)) =>
            LET dueDay == loans[l].date_due[1]
                day == now \div SlotsPerDay
            IN /\ day = dueDay => loans'[l].late_fee = 0
               /\ day = dueDay + 1 =>
                    loans'[l].late_fee =
                        RateTable(settings["late_fee_per_day"])]_vars

\* a loan returned on the day after its due date, less than a day after the
\* due time, was charged
C7_Witness ==
    \E l \in DOMAIN loans :
        /\ loans[l].date_returned # NULL
        /\ loans[l].date_returned[1] = loans[l].date_due[1] + 1
        /\ loans[l].date_returned[2] < loans[l].date_due[2]
        /\ loans[l].late_fee > 0

\* C8: the fee uses the late_fee_per_day setting as it is at the return: a
\* rate set between borrow_book and return_book is the rate charged, and
\* set_setting leaves the loans, the returned ones with their fees, alone.
C8_RateAtReturn ==
    [][/\ \A l \in DOMAIN loans :
            (loans[l].date_returned = NULL /\ result'.op = "return_book"
             /\ return_book(l, username)
               /\ DaysPastDue(loans[l], now) > 0) =>
              /\ settings' = settings
              /\ loans'[l].late_fee =
                   DaysPastDue(loans[l], now)
                     * RateTable(settings'["late_fee_per_day"])
       /\ set_setting("late_fee_per_day", NewRate, username) =>
              loans' = loans]_vars

\* the rate was changed while the loan was out and the loan was returned
\* late at the new rate
C8_Witness ==
    /\ \E i, j, k \in 1..Len(audit_log) :
          /\ i < j /\ j < k
          /\ audit_log[i].action = "borrow_book"
          /\ audit_log[j].action = "set_setting"
          /\ audit_log[k].action = "return_book"
    /\ \E l \in DOMAIN loans :
          /\ loans[l].date_returned # NULL
          /\ loans[l].late_fee =
               75 * (loans[l].date_returned[1] - loans[l].date_due[1])
          /\ loans[l].late_fee > 0

\* C9: a successful return_book sets the loan's date_returned, stores the
\* fee, sets the book's available flag to 1, and returns the stored fee.
C9_ReturnEffect ==
    [][\A l \in DOMAIN loans :
          (loans[l].date_returned = NULL /\ result'.op = "return_book"
             /\ return_book(l, username)) =>
            /\ loans'[l].date_returned # NULL
            /\ loans'[l].date_returned =
                 <<now \div SlotsPerDay, now % SlotsPerDay>>
            /\ books'[loans[l].book_id].available = 1
            /\ result'.ret # None
            /\ result'.ret[1].success
            /\ result'.ret[1].late_fee = loans'[l].late_fee
            /\ loans'[l].late_fee =
                 (IF DaysPastDue(loans[l], now) > 0
                  THEN DaysPastDue(loans[l], now) ELSE 0) * late_fee_per_day
       ]_vars

\* a return with a fee has just succeeded
C9_Witness ==
    /\ result.op = "return_book"
    /\ result.ret # None
    /\ result.ret[1].success
    /\ result.ret[1].late_fee > 0
    /\ \E l \in DOMAIN loans :
          /\ loans[l].date_returned # NULL
          /\ loans[l].late_fee = result.ret[1].late_fee
          /\ books[loans[l].book_id].available = 1

\* C10: a loan goes from open to returned only: no step removes a loan row
\* or changes its book_id, member_id, date_borrowed or date_due, and a
\* returned loan keeps its date_returned and late_fee.
C10_LoanImmutable ==
    [][\A l \in DOMAIN loans :
          /\ l \in DOMAIN loans'
          /\ loans'[l].book_id = loans[l].book_id
          /\ loans'[l].member_id = loans[l].member_id
          /\ loans'[l].date_borrowed = loans[l].date_borrowed
          /\ loans'[l].date_due = loans[l].date_due
          /\ loans[l].date_returned # NULL =>
               /\ loans'[l].date_returned = loans[l].date_returned
               /\ loans'[l].late_fee = loans[l].late_fee]_vars

\* a loan was returned, a day passed, and a second return of it has failed
C10_Witness ==
    /\ result.op = "return_book"
    /\ result.ret # None
    /\ ~result.ret[1].success
    /\ \E l \in DOMAIN loans :
          /\ loans[l].date_returned # NULL
          /\ loans[l].date_returned[1] < now \div SlotsPerDay
\* C11: delete_book on a book that an open loan references returns
\* success = False and leaves the book row and all loans as they are;
\* delete_book on a book with no loan, or with returned loans only, returns
\* success = True and the book row is gone.
C11_DeleteBook ==
    [][\A b \in BookIds :
          (result'.op = "delete_book" /\ delete_book(b, username)) =>
            IF \E l \in DOMAIN loans :
                  loans[l].book_id = b /\ loans[l].date_returned = NULL
            THEN /\ result'.ret[1].success = FALSE
                 /\ UNCHANGED <<books, loans>>
            ELSE /\ result'.ret[1].success = TRUE
                 /\ b \notin DOMAIN books']_vars

\* a book whose loan was returned has been deleted
C11_Witness ==
    /\ result.op = "delete_book"
    /\ result.ret[1].success = TRUE
    /\ \E l \in DOMAIN loans :
          /\ loans[l].date_returned # NULL
          /\ loans[l].book_id \notin DOMAIN books
          /\ loans[l].book_id <= bookSeq

\* the rows of every table
Store == <<books, members, loans, settings, users, audit_log>>

\* C12: every call of borrow_book, return_book, change_user_password,
\* admin_reset_password, create_user and set_setting that changes state
\* appends exactly one audit_log row, and the actor of that row is the user
\* who made the call.
C12_OneAuditRowByCaller ==
    [][(/\ result'.op \in {"borrow_book", "return_book",
                           "change_user_password", "admin_reset_password",
                           "create_user", "set_setting"}
        /\ Store' # Store) =>
          /\ Len(audit_log') = Len(audit_log) + 1
          /\ SubSeq(audit_log', 1, Len(audit_log)) = audit_log
          /\ audit_log'[Len(audit_log')].actor = username[1]]_vars

\* C13: the audit log is append-only: over any sequence of operations the
\* sequence of audit_log rows only grows, and no row's actor, action,
\* details or created_at is ever changed or removed.
C13_AuditAppendOnly ==
    [][/\ Len(audit_log') >= Len(audit_log)
       /\ SubSeq(audit_log', 1, Len(audit_log)) = audit_log]_vars

\* rows of three operations follow the two rows of the first start, the
\* last of them written at a later time
C13_Witness ==
    /\ Len(audit_log) >= 5
    /\ audit_log[2].action = "create_default_admin"
    /\ audit_log[Len(audit_log)].created_at # audit_log[1].created_at
    /\ result.op = "init_db"

\* a row of the user name was hashed from this password
HasPassword(table, name, password) ==
    \E i \in DOMAIN table :
        table[i].username = name /\ table[i].password_hash[2] = password

\* the rows of the other users are as they were
OthersUnchanged(name) ==
    /\ Len(users') = Len(users)
    /\ \A i \in DOMAIN users :
          users[i].username # name => users'[i] = users[i]

\* C14: verify_user returns the plain value False, raises nothing and
\* changes no state, for a user name that does not exist and for a user
\* name that exists with a wrong password alike: the caller sees the same
\* outcome in both cases.
C14_VerifyUserFalse ==
    [][\A name \in Usernames, password \in Passwords :
          (/\ result'.op = "verify_user"
           /\ ~HasPassword(users, name, password)
           /\ verify_user_call(name, password)) =>
            /\ result'.op = "verify_user"
            /\ result'.ret = <<FALSE>>
            /\ UNCHANGED <<Store, bookSeq, memberSeq, now, username>>]_vars

\* verify_user has returned False while bob exists beside admin, and no
\* user has the password "admin": the call was made with a wrong password
\* or for nobody
C14_Witness ==
    /\ result.op = "verify_user"
    /\ result.ret = <<FALSE>>
    /\ Len(users) = 2
    /\ \A name \in Usernames : ~HasPassword(users, name, "admin")

\* C15: change_user_password(username, old, new) with an old password that
\* does not verify, the unknown user name included, returns success = False
\* and leaves every stored password hash as it is.
C15_WrongOldPassword ==
    [][\A name \in Usernames, old \in Passwords, new \in Passwords,
         salt \in Salts :
          (/\ result'.op = "change_user_password"
           /\ ~HasPassword(users, name, old)
           /\ change_user_password(name, old, new, salt)) =>
            /\ result'.ret[1].success = FALSE
            /\ UNCHANGED users]_vars

\* a change of password was refused while bob exists beside admin
C15_Witness ==
    /\ result.op = "change_user_password"
    /\ result.ret[1].success = FALSE
    /\ Len(users) = 2

\* C16: change_user_password(username, old, new) with the current password
\* returns success = True; afterwards verify_user(username, new) is true
\* and, when old differs from new, verify_user(username, old) is false; the
\* credentials of no other user change.
C16_ChangePassword ==
    [][\A name \in Usernames, old \in Passwords, new \in Passwords,
         salt \in Salts :
          (/\ result'.op = "change_user_password"
           /\ HasPassword(users, name, old)
           /\ change_user_password(name, old, new, salt)) =>
            /\ result'.ret[1].success = TRUE
            /\ verify_user(name, new)'
            /\ (old # new => ~verify_user(name, old)')
            /\ OthersUnchanged(name)]_vars

\* a password was changed with success; bob now has the password "admin"
\* and admin the password "pw"
C16_Witness ==
    /\ result.op = "change_user_password"
    /\ result.ret[1].success = TRUE
    /\ HasPassword(users, "bob", "admin")
    /\ HasPassword(users, "admin", "pw")

\* C17: admin_reset_password(admin, target, new) needs no knowledge of the
\* old password of the target: for a target that exists it returns
\* success = True, afterwards verify_user(target, new) is true and a
\* previous password that differs from new verifies no longer, and all
\* other users are unchanged.
C17_AdminReset ==
    [][\A target \in Usernames, new \in Passwords, salt \in Salts :
          (/\ result'.op = "admin_reset_password"
           /\ UserIds(users, target) # {}
           /\ admin_reset_password(username[1], target, new, salt)) =>
            /\ result'.ret[1].success = TRUE
            /\ verify_user(target, new)'
            /\ \A previous \in Passwords \ {new} :
                  ~verify_user(target, previous)'
            /\ OthersUnchanged(target)]_vars

\* the password of bob was reset to one that differs from admin's
C17_Witness ==
    /\ result.op = "admin_reset_password"
    /\ \E password \in Passwords :
          /\ HasPassword(users, "bob", password)
          /\ ~HasPassword(users, "admin", password)
    /\ audit_log[Len(audit_log)].action = "admin_reset_password"
    /\ audit_log[Len(audit_log)].details[4] = "bob"

\* no two rows of users have the same user name
UsernamesUnique ==
    \A i, j \in DOMAIN users :
        users[i].username = users[j].username => i = j

\* C18: user names are unique in every reachable state: create_user with a
\* user name that exists fails, and the failure leaves the password hash
\* and the role of the user that exists, the number of users and the audit
\* log unchanged.
C18_UniqueUsernames ==
    /\ []UsernamesUnique
    /\ [][\A name \in Usernames, password \in Passwords, role \in Roles,
            salt \in Salts :
             (/\ result'.op = "create_user"
              /\ UserIds(users, name) # {}
              /\ create_user(name, password, role, salt)) =>
               /\ result'.ret = <<[raised |-> "IntegrityError"]>>
               /\ UNCHANGED <<users, audit_log>>]_vars

\* create_user was refused for a name that exists, after bob was created
C18_Witness ==
    /\ result.op = "create_user"
    /\ result.ret = Raised("create_user", "IntegrityError").ret
    /\ Len(users) = 2

\* C19: init_db is idempotent: run on a store that is initialised, after
\* any sequence of operations, it changes no row of any table; it does not
\* set changed settings back to their defaults and does not create the
\* admin user again or reset it.
C19_InitDbIdempotent ==
    [][(/\ result'.op = "init_db"
        /\ DOMAIN DefaultSettings \subseteq DOMAIN settings
        /\ \E salt \in Salts : init_db(salt)) =>
          UNCHANGED Store]_vars

\* init_db has run again after the rate was set, bob was created and admin
\* took another password
C19_Witness ==
    /\ result.op = "init_db"
    /\ settings["late_fee_per_day"] = NewRate
    /\ HasPassword(users, "bob", "pw")
    /\ ~HasPassword(users, "admin", "admin")

\* C20: the bootstrap of the default admin: when the users table is empty
\* it creates exactly one user (name admin, role admin, verifiable with the
\* default password) and appends exactly one audit entry, whose actor is
\* "system"; when a user exists it creates no user and appends no audit
\* entry.
C20_Bootstrap ==
    [][(/\ result'.op = "init_db"
        /\ \E salt \in Salts : init_db(salt)) =>
          IF Len(users) = 0
          THEN /\ Len(users') = 1
               /\ users'[1].username = "admin"
               /\ users'[1].role = "admin"
               /\ verify_user("admin", "admin")'
               /\ Len(audit_log') = Len(audit_log) + 1
               /\ audit_log'[Len(audit_log')].actor = "system"
          ELSE UNCHANGED <<users, audit_log>>]_vars

\* the positions of the audit rows of set_setting for the key
SetRows(key) ==
    {i \in 1..Len(audit_log) :
        audit_log[i].action = "set_setting" /\ audit_log[i].details[1] = key}

\* C21: settings have upsert semantics: get_setting(k) returns None when k
\* was never set, and after set_setting(k, v) it returns str(v), the latest
\* value written, until the next set_setting(k, ...); setting one key never
\* changes the value of another key.
C21_Upsert ==
    \A key \in SettingKeys :
        IF SetRows(key) = {}
        THEN get_setting(key) =
                IF key \in DOMAIN DefaultSettings
                THEN <<DefaultSettings[key]>> ELSE None
        ELSE \E i \in SetRows(key) :
                /\ \A j \in SetRows(key) : j <= i
                /\ get_setting(key) = <<audit_log[i].details[3]>>

\* theme was set twice, to different values, and smtp_host once before
\* the second time; a read follows
C21_Witness ==
    /\ result.op = "get_setting"
    /\ \E i, j \in SetRows("theme"), h \in SetRows("smtp_host") :
          /\ i < h /\ h < j
          /\ audit_log[i].details[3] # audit_log[j].details[3]
          /\ audit_log[h].details[3] # audit_log[j].details[3]

\* C22: query_audit(limit, since) returns at most limit rows, ordered by
\* created_at newest first, and they are the newest rows among those with
\* created_at >= since (all rows when since is None): it returns no row
\* older than since and skips no newer qualifying row for an older one.
C22_QueryAudit ==
    [][(result'.op = "query_audit" /\ audit_log' = audit_log) =>
          LET rows == result'.ret[1]
              limit == result'.args.limit
              since == result'.args.since
              at(i) == fromisoformat(audit_log[i].created_at)
              qualifying == {i \in 1..Len(audit_log) :
                               since = None \/ at(i) >= since[1]}
              got == {rows[k].id : k \in 1..Len(rows)}
          IN /\ Len(rows) <= limit
             /\ Cardinality(got) = Len(rows)
             /\ got \subseteq qualifying
             /\ \A k \in 1..Len(rows) : rows[k] = AuditDict(rows[k].id)
             /\ \A k, m \in 1..Len(rows) :
                   k < m => at(rows[k].id) >= at(rows[m].id)
             /\ \A i \in qualifying \ got :
                   /\ Len(rows) = limit
                   /\ \A k \in 1..Len(rows) : at(rows[k].id) >= at(i)]_vars

\* a query has returned two rows of different times and left out the two
\* older rows of the bootstrap
C22_Witness ==
    /\ result.op = "query_audit"
    /\ Len(result.ret[1]) = 2
    /\ Len(audit_log) = 4
    /\ result.ret[1][1].created_at # result.ret[1][2].created_at
    /\ result.ret[1][2].created_at # audit_log[1].created_at
    /\ result.ret[1][2].created_at # audit_log[2].created_at

\* the rows name the loans of the set ids, each once, newest borrowed first
ListsExactly(rows, ids) ==
    /\ {rows[k].loan_id : k \in 1..Len(rows)} = ids
    /\ Len(rows) = Cardinality(ids)
    /\ \A k, m \in 1..Len(rows) :
          k < m => fromisoformat(rows[k].date_borrowed)
                     >= fromisoformat(rows[m].date_borrowed)

\* C23: list_loans(show_all=False) returns exactly the loans whose
\* date_returned is null; list_loans(show_all=True) and
\* get_all_loans_for_export return every loan ever created; each list is
\* ordered by date_borrowed, newest first.
C23_ListLoans ==
    [][/\ (result'.op = "list_loans" /\ loans' = loans) =>
            ListsExactly(result'.ret[1],
                IF result'.args.show_all THEN DOMAIN loans
                ELSE {l \in DOMAIN loans : loans[l].date_returned = NULL})
       /\ (result'.op = "get_all_loans_for_export" /\ loans' = loans) =>
            ListsExactly(result'.ret[1], DOMAIN loans)]_vars

\* C27: in every reachable state each loan row's book_id refers to an
\* existing book and its member_id to an existing member, and the two
\* references of a loan never change after the loan is created.
C27_ReferentialIntegrity ==
    /\ [](\A l \in DOMAIN loans :
            /\ loans[l].book_id \in DOMAIN books
            /\ loans[l].member_id \in DOMAIN members)
    /\ [][\A l \in DOMAIN loans :
            /\ l \in DOMAIN loans'
            /\ loans'[l].book_id = loans[l].book_id
            /\ loans'[l].member_id = loans[l].member_id]_vars

\* C24: borrow_book and return_book apply their loan-row change and their
\* availability change as one unit: the loans and the flags that a reader
\* finds in the store change only in the step in which a call commits, and
\* that step brings both the loan row of the call (the new open loan, or
\* the return time and the fee) and the flag that goes with it (0 or 1); a
\* call that fails in the middle changes neither.
C24_Atomic ==
    [][(loans' # loans \/
        \E b \in DOMAIN books : b \in DOMAIN books' /\ books'[b] # books[b])
       => \E c \in Callers :
            LET k == conns[c].call[1] IN
            /\ conns[c].pc # "idle"
            /\ conns'[c].pc = "committed"
            /\ conns[c].pc # "committed"
            /\ IF k.op = "borrow_book"
               THEN /\ Len(loans') = Len(loans) + 1
                    /\ loans'[Len(loans')].book_id = k.book_id
                    /\ loans'[Len(loans')].date_returned = NULL
                    /\ books'[k.book_id].available = 0
               ELSE /\ Len(loans') = Len(loans)
                    /\ loans'[k.loan_id].date_returned = isoformat(k.at)
                    /\ loans'[k.loan_id].late_fee = k.late_fee
                    /\ books'[k.book_id].available = 1]_vars

\* a borrow has failed in the middle and left the store as it was, and a
\* return has written its loan row and not yet the flag of the book
C24_Witness ==
    /\ result.op = "borrow_book"
    /\ result.ret = Raised("borrow_book", "Error").ret
    /\ \E c \in Callers :
          /\ conns[c].pc = "written1"
          /\ conns[c].call[1].op = "return_book"
          /\ View(c).loans # loans
          /\ \A l \in DOMAIN loans :
                loans[l].date_returned = NULL
                  => books[loans[l].book_id].available = 0

\* C25: when two borrow_book calls for the same available book run at the
\* same time, each on its own connection, one succeeds and the other fails
\* with "Book currently not available.": a call that has passed its test
\* and finds the book taken when its turn to write comes does not write,
\* and the store never holds two open loans of one book.
C25_ConcurrentBorrow ==
    /\ [](\A b \in DOMAIN books : Cardinality(OpenLoansOf(b)) <= 1)
    /\ [][\A c \in Callers :
            (/\ conns[c].pc = "checked"
             /\ conns'[c].pc # "checked"
             /\ conns[c].call[1].op = "borrow_book"
             /\ ~IsAvailable(books[conns[c].call[1].book_id]))
              => /\ conns'[c] = Closed
                 /\ result'.op = "borrow_book"
                 /\ result'.ret =
                       Failure("Book currently not available.")]_vars

\* the stored SMTP settings are incomplete: a value is missing or empty,
\* or the port is no number
SmtpIncomplete ==
    \/ \E key \in {"smtp_host", "smtp_port", "smtp_user", "smtp_password"} :
          get_setting(key) \in {None, << << >> >>}
    \/ \E i \in 1..Len(settings["smtp_port"]) :
          ~IsDigit(settings["smtp_port"][i])

\* C26: send_email never raises: for every combination of stored SMTP
\* settings and every delivery failure it returns a result object, and
\* whenever the settings are incomplete (a value empty or missing, or a
\* port that is no number) it sends nothing and returns success=False
\* with a message.
C26_SendEmailNeverRaises ==
    [][result'.op = "send_email" =>
          /\ "success" \in DOMAIN result'.ret[1]
          /\ SmtpIncomplete =>
                /\ outbox' = outbox
                /\ result'.ret[1].success = FALSE
                /\ "message" \in DOMAIN result'.ret[1]]_vars

\* C28: admin_reset_password and create_user are called from the pages of
\* the application only in a session whose user has the role admin: the
\* two forms that call them act in no session of another role.
C28_AdminOnly ==
    [][result'.op \in {"create_admin_action", "admin_reset_action"} =>
          /\ self_role = <<"admin">>
          /\ get_user_role(username[1]) = <<"admin">>]_vars

\* a user of role staff is logged in after an admin reset their password
C28_Witness ==
    /\ self_role = <<"staff">>
    /\ username = <<"bob">>
    /\ \E i \in 1..Len(audit_log) :
          /\ audit_log[i].action = "admin_reset_password"
          /\ audit_log[i].actor = "admin"
    /\ HasPassword(users, "bob", "admin")

\* C29: each state-changing action of the settings page (save of the late
\* fee, save of the SMTP settings, change of the own password, password
\* reset by an admin) leaves exactly one audit_log row, and the row
\* describes that action.
C29_OneRowPerGuiAction ==
    [][(/\ result'.op \in {"save_settings", "save_smtp_settings",
                            "change_password_action", "admin_reset_action"}
        /\ Store' # Store) =>
          /\ Len(audit_log') = Len(audit_log) + 1
          /\ SubSeq(audit_log', 1, Len(audit_log)) = audit_log]_vars

\* C30: in a session of a user who is no admin the SMTP settings are
\* read-only: the stored smtp_host, smtp_port, smtp_user and smtp_password
\* change only in a session of role admin.
C30_SmtpReadOnlyForStaff ==
    [][(\E key \in {"smtp_host", "smtp_port", "smtp_user", "smtp_password"} :
           settings'[key] # settings[key])
       => self_role = <<"admin">>]_vars

\* C31: in every reachable state every open loan has late_fee 0 and every
\* returned loan has late_fee >= 0, for every value late_fee_per_day can be
\* given.
C31_FeeNotNegative ==
    \A l \in DOMAIN loans :
        IF loans[l].date_returned = NULL THEN loans[l].late_fee = 0
        ELSE loans[l].late_fee >= 0

\* the number a stored text stands for, << >> for a text that is none
StoredNumber(text) ==
    CASE text = <<"0", ".", "5", "0">> -> <<50>>
      [] text = <<"0", ".", "7", "5">> -> <<75>>
      [] text = <<"-", "1">> -> <<-100>>
      [] OTHER -> << >>

\* C38: return_book succeeds whatever the stored late_fee_per_day is: with
\* the setting missing or no number the rate is 0.50, otherwise it is the
\* stored number; a return of an open loan never fails and never leaves the
\* loan open.
C38_BadRateReturns ==
    [][/\ (result'.op = "late_fee_per_day") =>
            LET s == result'.args.late_fee_setting IN
            result'.ret[1] = IF s = None \/ StoredNumber(s[1]) = << >>
                             THEN 50 ELSE StoredNumber(s[1])[1]
       /\ \A l \in DOMAIN loans :
            (/\ result'.op = "return_book"
             /\ loans[l].date_returned = NULL
             /\ return_book(l, username)) =>
              LET n == StoredNumber(settings["late_fee_per_day"])
                  rate == IF n = << >> THEN 50 ELSE n[1]
                  days == DaysPastDue(loans[l], now)
              IN /\ result'.ret[1].success = TRUE
                 /\ loans'[l].date_returned # NULL
                 /\ loans'[l].late_fee = IF days > 0 THEN days * rate ELSE 0]_vars

\* a loan was returned late while the stored rate was no number, and it
\* carries the fee of the rate 0.50
C38_Witness ==
    /\ result.op = "return_book"
    /\ StoredNumber(settings["late_fee_per_day"]) = << >>
    /\ \E l \in DOMAIN loans :
          /\ loans[l].date_returned = isoformat(now)
          /\ loans[l].date_returned[1] > loans[l].date_due[1]
          /\ loans[l].late_fee =
               50 * (loans[l].date_returned[1] - loans[l].date_due[1])

\* C32: an edit through update_book_action changes only the title, author,
\* category and isbn of the edited book: its available flag, every other
\* book and all loan rows stay as they were, also while the book is lent.
C32_EditKeepsAvailability ==
    [][result'.op = "update_book" /\ audit_log' # audit_log =>
          /\ loans' = loans
          /\ DOMAIN books' = DOMAIN books
          /\ \A b \in DOMAIN books :
                /\ books'[b].available = books[b].available
                /\ b # audit_log'[Len(audit_log')].details[1] => books'[b] = books[b]]_vars

C37_ResetOfMissingUser ==
    [][\A target \in Usernames, new \in Passwords, salt \in Salts :
          (/\ result'.op = "admin_reset_password"
           /\ UserIds(users, target) = {}
           /\ admin_reset_password(username[1], target, new, salt)) =>
            /\ users' = users
            /\ ~verify_user(target, new)'
            /\ result'.ret[1].success = TRUE
            /\ Len(audit_log') = Len(audit_log) + 1
            /\ audit_log'[Len(audit_log')].action = "admin_reset_password"
            /\ audit_log'[Len(audit_log')].details[4] = target]_vars

\* the password of "bob" has been reset while no user "bob" exists
C37_Witness ==
    /\ result.op = "admin_reset_password"
    /\ audit_log[Len(audit_log)].action = "admin_reset_password"
    /\ audit_log[Len(audit_log)].details[4] = "bob"
    /\ UserIds(users, "bob") = {}
    /\ \A password \in Passwords : ~verify_user("bob", password)

\* C34: whenever the Borrow/Return frame is shown, or a borrow or a return
\* made at the window succeeds, the active-loans table lists exactly the
\* loans of list_loans(show_all=False), so that a loan borrowed at the
\* window can be selected there and returned with return_action.
C34_ActiveLoansListed ==
    [][(\/ result'.op = "show_frame" /\ result'.args.name = "borrow"
        \/ result'.op \in {"borrow_book", "return_book"} /\ audit_log' # audit_log) =>
          {loan_tree'[i].loan_id : i \in DOMAIN loan_tree'} = JoinedLoans(FALSE)']_vars

\* C35: showing the Audit Log frame fills the audit table with the rows of
\* query_audit(limit=500, since): with an empty Since entry and fewer than
\* 500 rows these are all rows of audit_log, so every entry written before
\* is in the table.
C35_AuditRowsShown ==
    [][(result'.op = "show_frame" /\ result'.args.name = "audit") =>
          {audit_tree'[i].id : i \in DOMAIN audit_tree'} = DOMAIN audit_log']_vars

\* the calendar date on which loan l was borrowed
BorrowedDate(l) == date(fromisoformat(loans[l].date_borrowed))

\* C39: an export with a From and/or a To date writes exactly the loans
\* whose borrowed calendar date d has From <= d <= To, each once (all loans
\* when both are empty), and the count in the export's audit row is the
\* number of rows written.
C39_ExportRange ==
    [][(result'.op = "export_transactions_range" /\ audit_log' # audit_log) =>
          LET rows == result'.ret[1]
              dfrom == result'.args.dfrom
              dto == result'.args.dto
          IN /\ {rows[i].loan_id : i \in DOMAIN rows} =
                   {l \in DOMAIN loans :
                       /\ dfrom # None => dfrom[1] <= BorrowedDate(l)
                       /\ dto # None => BorrowedDate(l) <= dto[1]}
             /\ \A i, j \in DOMAIN rows : rows[i].loan_id = rows[j].loan_id => i = j
             /\ audit_log'[Len(audit_log')].details[2] = Len(rows)]_vars

\* the operation ended without success: it returned success = False or
\* raised
Failed(r) == r.ret # None /\ ("raised" \in DOMAIN r.ret[1] \/ ~r.ret[1].success)

====
